---- MODULE Spec2Model ----
(***************************************************************************)
(* State-machine model of the SA-driven fuzzer resource scheduler          *)
(* (src/sc_sculuer.py): the resource pool, the coverage monitor, the       *)
(* simulated-annealing scheduler and the driver main().                    *)
(*                                                                         *)
(* Python floats are modelled as exact rationals <<numerator, denominator>>*)
(* in lowest terms with a positive denominator.  A byte string is a        *)
(* sequence of integers 0..255.  A process handle is the index of the      *)
(* process in procs (0 stands for None).                                   *)
(***************************************************************************)
EXTENDS Integers, Sequences, FiniteSets, TLC

(***************************************************************************)
(* Bounds of the exploration.                                              *)
(***************************************************************************)
\* iterations of the driver's "while True" loop that are explored
MaxIter == 3
\* writes the workers may make to the shared-memory regions in one run
MaxWrites == 1
\* faults the environment may inject in one run: a dd that fails, a worker
\* launch (subprocess.Popen) that fails, a bounded terminate-wait that expires
MaxFaults == 1

(***************************************************************************)
(* Rational arithmetic standing for Python float arithmetic.               *)
(***************************************************************************)
Abs(x) == IF x < 0 THEN -x ELSE x

RECURSIVE GCD(_, _)
GCD(a, b) == IF b = 0 THEN a ELSE GCD(b, a % b)

Norm(n, d) ==
    LET g == GCD(Abs(n), d)
    IN  <<n \div g, d \div g>>

R(n) == <<n, 1>>
RMul(a, b) == Norm(a[1] * b[1], a[2] * b[2])
RAdd(a, b) == Norm(a[1] * b[2] + b[1] * a[2], a[2] * b[2])
RSub(a, b) == Norm(a[1] * b[2] - b[1] * a[2], a[2] * b[2])
RLess(a, b) == a[1] * b[2] < b[1] * a[2]
RLeq(a, b) == a[1] * b[2] <= b[1] * a[2]
\* Python's max(a, b): the first argument unless the second is larger
RMax(a, b) == IF RLess(a, b) THEN b ELSE a

RECURSIVE SumSeq(_)
SumSeq(s) == IF s = <<>> THEN 0 ELSE Head(s) + SumSeq(Tail(s))

RECURSIVE SetToSeq(_)
\* the elements of a finite set of integers in ascending order: the order in
\* which CPython iterates a dict filled in ascending key order, or a small set
\* of small integers
SetToSeq(S) ==
    IF S = {} THEN <<>>
    ELSE LET m == CHOOSE x \in S : \A y \in S : x <= y
         IN  <<m>> \o SetToSeq(S \ {m})

(***************************************************************************)
(* Command line (parse_args) and the configuration files.                  *)
(***************************************************************************)
\* Path(config_path).stem.lower(), as the words the stem is made of
PathStem(c) ==
    CASE c = "tls.xml"            -> {"tls"}
      [] c = "tls_heavy.xml"      -> {"tls", "heavy"}
      [] c = "TLS_Medium.xml"     -> {"tls", "medium"}
      [] c = "medium_heavy.xml"   -> {"medium", "heavy"}
      [] c = "heavy/dtls.xml"     -> {"dtls"}
      [] OTHER                    -> {}

ConfigPools ==
    { <<"tls.xml">>,
      <<"tls.xml", "tls_heavy.xml">>,
      <<"TLS_Medium.xml", "medium_heavy.xml">> }

\* (init_temp, cool_rate, min_temp) as given to --init-temp, --cool-rate, --min-temp
TempChoices ==
    { <<R(10), <<1, 2>>, R(1)>>,
      <<R(4),  R(1),     R(1)>>,
      <<R(-2), <<1, 2>>, R(-4)>>,
      <<R(2),  <<1, 2>>, R(-1)>> }

MaxStagnantChoices == {0, 1, 2}
StartIdxChoices == {1}

\* the threshold of the automatic adjustment in main and its stagnation cap
LargeFleet == 32
LargeFleetMaxStagnant == 10

Args(n, s, cp, t, ms) ==
    [num_instances |-> n, start_idx |-> s, config_pool |-> cp,
     init_temp |-> t[1], cool_rate |-> t[2], min_temp |-> t[3], max_stagnant |-> ms]

\* the command lines explored for a single slot: every configuration pool and
\* stagnation cap with the default temperatures, and every temperature choice
\* with a pool of two configurations
parse_args_single ==
    { Args(1, s, cp, <<R(10), <<1, 2>>, R(1)>>, ms) :
        s \in StartIdxChoices, cp \in ConfigPools, ms \in MaxStagnantChoices }
    \cup { Args(1, s, <<"tls.xml", "tls_heavy.xml">>, t, 2) :
             s \in StartIdxChoices, t \in TempChoices }

\* the command lines explored: those for a single slot, and one fleet of two
\* slots
parse_args ==
    parse_args_single
    \cup { Args(2, s, <<"tls.xml">>, <<R(10), <<1, 2>>, R(1)>>, 2) :
             s \in StartIdxChoices }

SlotIds(a) == a.start_idx .. (a.start_idx + a.num_instances - 1)

Range(s) == { s[i] : i \in 1..Len(s) }

(***************************************************************************)
(* Byte strings: popcount and bitwise OR.                                  *)
(***************************************************************************)
RECURSIVE PopByte(_)
\* bin(byte).count('1')
PopByte(b) == IF b = 0 THEN 0 ELSE (b % 2) + PopByte(b \div 2)

RECURSIVE OrByte(_, _)
OrByte(a, b) ==
    IF a = 0 THEN b
    ELSE IF b = 0 THEN a
    ELSE (IF a % 2 = 1 \/ b % 2 = 1 THEN 1 ELSE 0) + 2 * OrByte(a \div 2, b \div 2)

count_branches(data) == SumSeq([i \in 1..Len(data) |-> PopByte(data[i])])

\* a loop body that stores data over merged where it should OR it in
MergeOverwrite(merged, data) ==
    LET n == IF Len(data) > Len(merged) THEN Len(data) ELSE Len(merged)
    IN  [i \in 1..n |-> IF i <= Len(data) THEN data[i] ELSE merged[i]]

\* a loop body that ORs into merged without lengthening it
MergeNoExtend(merged, data) ==
    [i \in 1..Len(merged) |->
        IF i <= Len(data) THEN OrByte(merged[i], data[i]) ELSE merged[i]]

\* one round of the loop body of get_merged_coverage: extend merged with zero
\* bytes to the length of data, then OR data into it
MergeInto(merged, data) ==
    LET n == IF Len(data) > Len(merged) THEN Len(data) ELSE Len(merged)
        ext == [i \in 1..n |-> IF i <= Len(merged) THEN merged[i] ELSE 0]
    IN  [i \in 1..n |-> IF i <= Len(data) THEN OrByte(ext[i], data[i]) ELSE ext[i]]

RECURSIVE MergeAll(_, _)
MergeAll(merged, rest) ==
    IF rest = <<>> THEN merged
    ELSE MergeAll(MergeInto(merged, Head(rest)), Tail(rest))

\* CoverageMonitor.get_merged_coverage on the snapshots cov (slot -> bytes) and
\* the sequence ids of slot ids; a slot without a snapshot reads as b''
get_merged_coverage(cov, ids) ==
    LET active_data == [k \in 1..Len(ids) |->
                          IF ids[k] \in DOMAIN cov THEN cov[ids[k]] ELSE <<>>]
    IN  IF active_data = <<>> THEN 0
        ELSE count_branches(MergeAll(Head(active_data), Tail(active_data)))

get_instance_coverage(cov, i) ==
    count_branches(IF i \in DOMAIN cov THEN cov[i] ELSE <<>>)

\* bit.py, count_coverage
count_coverage(data) == SumSeq([i \in 1..Len(data) |-> PopByte(data[i])])

\* merge_content that never lengthens base_data
merge_content_no_extend(base_data, new_content) ==
    [i \in 1..Len(base_data) |->
        IF i <= Len(new_content) THEN OrByte(base_data[i], new_content[i])
        ELSE base_data[i]]

\* bit.py, merge_content: base_data is extended with zero bytes to the length
\* of new_content, then new_content is ORed into it
merge_content(base_data, new_content) ==
    LET ext == IF Len(base_data) < Len(new_content)
               THEN base_data \o [i \in 1..(Len(new_content) - Len(base_data)) |-> 0]
               ELSE base_data
    IN  [i \in 1..Len(ext) |->
            IF i <= Len(new_content) THEN OrByte(ext[i], new_content[i]) ELSE ext[i]]

(***************************************************************************)
(* State.                                                                  *)
(***************************************************************************)
VARIABLES
    args,            \* the parsed command line
    pc,              \* the statement of main() that runs next
    pool,            \* main's local variable pool: the class of the object, or "None"
    error,           \* the exception that ended main's try block, or "none"
    error_at,        \* the function that raised it
    iteration,       \* main's local variable iteration
    shm,             \* the files under /dev/shm: path -> [exists, data, mtime, writes]
    procs,           \* every worker process ever launched: [slot, pool, alive]
    opt_instances,   \* OptimizedResourcePool.instances (main line 464)
    instances,       \* ResourcePool.instances (main line 475)
    edge_coverage,   \* CoverageMonitor.edge_coverage (main line 476)
    last_update,     \* CoverageMonitor.last_update
    temp,            \* EnhancedSAScheduler.temp
    best_state,      \* EnhancedSAScheduler.best_state
    best_energy,     \* EnhancedSAScheduler.best_energy
    stagnation,      \* EnhancedSAScheduler.stagnation
    cleanup_calls,   \* how often ResourcePool.cleanup has run
    faults,          \* faults injected so far (bounded by MaxFaults)
    last_step,       \* what the last completed step() computed
    async_edge_coverage,  \* AsyncCoverageMonitor.edge_coverage (main line 465)
    async_last_update,    \* AsyncCoverageMonitor.last_update
    refresh_lock,    \* holder of AsyncCoverageMonitor.refresh_lock, or "free"
    worker_pc,       \* position of the thread running _async_refresh
    worker_todo,     \* the active instances the refresh cycle has still to process
    worker_wrote,    \* the snapshots the running cycle replaced during the foreground call
    fg_pc,           \* position of the foreground call into the asynchronous monitor
    fg_todo,         \* the slots a foreground get_merged_coverage has still to read
    fg_seen,         \* what that call has read: [read, old, new], sets of slots
    call             \* the last call of a function on its own: its arguments and result

vars == << args, pc, pool, error, error_at, iteration, shm, procs, opt_instances,
           instances, edge_coverage, last_update, temp, best_state, best_energy,
           stagnation, cleanup_calls, faults, last_step,
           async_edge_coverage, async_last_update, refresh_lock, worker_pc,
           worker_todo, worker_wrote, fg_pc, fg_todo, fg_seen, call >>

schedVars == << temp, best_state, best_energy, stagnation, last_step >>
asyncVars == << async_edge_coverage, async_last_update, refresh_lock, worker_pc,
                worker_todo, worker_wrote, fg_pc, fg_todo, fg_seen >>
monitorVars == << edge_coverage, last_update >>

\* float('inf'): larger than every rational under RLess
Inf == <<1, 0>>

NoStep == [done |-> FALSE]

NoCall == [fn |-> "none"]

\* read: the slots whose snapshot the call has read; old: those of them whose
\* snapshot the running refresh cycle replaced afterwards; new: those read
\* after that cycle had replaced them during the call
NoReads == [read |-> {}, old |-> {}, new |-> {}]

(***************************************************************************)
(* Shared-memory files.                                                    *)
(***************************************************************************)
\* the size of a region in bytes (dd bs=10M count=1), scaled down
RegionLen == 1

\* the bits a worker sets with one write
WriteMasks == {15, 240}

shm_paths_of(i) == [cov_edge |-> <<"edge", i>>, cov_bitmap |-> <<"bitmap", i>>]

ShmPaths(a) == { <<k, i>> : k \in {"edge", "bitmap"}, i \in SlotIds(a) }

\* the order in which _init_pool visits the paths: by slot, edge before bitmap
PathRank(p) == 2 * p[2] + (IF p[1] = "edge" THEN 0 ELSE 1)

NoFile == [exists |-> FALSE, data |-> <<>>, mtime |-> 0, writes |-> 0]
\* dd if=/dev/zero of=path bs=10M count=1
ZeroFile == [exists |-> TRUE, data |-> [k \in 1..RegionLen |-> 0], mtime |-> 1, writes |-> 0]

(***************************************************************************)
(* ResourcePool.                                                           *)
(***************************************************************************)
\* a weight that looks for 'medium' before 'heavy'
calc_weight_medium_first(config_path) ==
    LET name == PathStem(config_path)
    IN  IF "medium" \in name THEN <<3, 2>>
        ELSE IF "heavy" \in name THEN R(2)
        ELSE R(1)

\* ResourcePool._calc_weight
calc_weight(config_path) ==
    LET name == PathStem(config_path)
    IN  IF "heavy" \in name THEN R(2)
        ELSE IF "medium" \in name THEN <<3, 2>>
        ELSE R(1)

\* a pool that binds every slot to the regions of its first slot
init_pool_instances_shared(a) ==
    [i \in SlotIds(a) |->
        [id |-> i, active |-> FALSE, process |-> 0, current_config |-> "None",
         shm_paths |-> shm_paths_of(a.start_idx), weight |-> R(1)]]

\* the instance records _init_pool builds (both pool classes build the same)
init_pool_instances(a) ==
    [i \in SlotIds(a) |->
        [id |-> i, active |-> FALSE, process |-> 0, current_config |-> "None",
         shm_paths |-> shm_paths_of(i), weight |-> R(1)]]

\* process.terminate() followed by process.wait(timeout=5): the process exits
\* within the wait (waited) or the wait expires and the process lives on
terminate_and_wait(ps, pid, waited) ==
    IF pid # 0 /\ ps[pid].alive /\ waited
    THEN [ps EXCEPT ![pid].alive = FALSE]
    ELSE ps

\* a switch_config whose failed launch leaves the slot marked as it was
switch_config_keeps_active(insts, ps, which, inst_id, new_config, waited, ok) ==
    LET inst == insts[inst_id]
        ps1 == terminate_and_wait(ps, inst.process, waited)
    IN  IF ok
        THEN [instances |->
                [insts EXCEPT ![inst_id] =
                    [inst EXCEPT !.process = Len(ps1) + 1,
                                 !.active = TRUE,
                                 !.current_config = new_config,
                                 !.weight = calc_weight(new_config)]],
              procs |-> Append(ps1, [slot |-> inst_id, pool |-> which, alive |-> TRUE])]
        ELSE [instances |-> insts, procs |-> ps1]

\* ResourcePool.switch_config: the pair of new instances and new processes.
\* ok says whether subprocess.Popen succeeds.
switch_config(insts, ps, which, inst_id, new_config, waited, ok) ==
    LET inst == insts[inst_id]
        ps1 == terminate_and_wait(ps, inst.process, waited)
    IN  IF ok
        THEN [instances |->
                [insts EXCEPT ![inst_id] =
                    [inst EXCEPT !.process = Len(ps1) + 1,
                                 !.active = TRUE,
                                 !.current_config = new_config,
                                 !.weight = calc_weight(new_config)]],
              procs |-> Append(ps1, [slot |-> inst_id, pool |-> which, alive |-> TRUE])]
        ELSE [instances |-> [insts EXCEPT ![inst_id].active = FALSE],
              procs |-> ps1]

\* a deactivate that also forgets what the slot was running
deactivate_forgets_config(insts, ps, inst_id, waited) ==
    [instances |-> [insts EXCEPT ![inst_id].active = FALSE, ![inst_id].process = 0,
                                 ![inst_id].current_config = "None",
                                 ![inst_id].weight = R(1)],
     procs |-> terminate_and_wait(ps, insts[inst_id].process, waited)]

\* ResourcePool.deactivate
deactivate(insts, ps, inst_id, waited) ==
    [instances |-> [insts EXCEPT ![inst_id].active = FALSE, ![inst_id].process = 0],
     procs |-> terminate_and_wait(ps, insts[inst_id].process, waited)]

\* ResourcePool.activate
activate(insts, ps, which, inst_id, config, waited, ok) ==
    IF ~insts[inst_id].active
    THEN switch_config(insts, ps, which, inst_id, config, waited, ok)
    ELSE [instances |-> insts, procs |-> ps]

\* ResourcePool.cleanup: os.remove on both paths of every slot
cleanup(files, insts) ==
    LET gone == UNION { {insts[i].shm_paths.cov_edge, insts[i].shm_paths.cov_bitmap} :
                          i \in DOMAIN insts }
    IN  [p \in DOMAIN files |-> IF p \in gone THEN NoFile ELSE files[p]]

\* the live processes launched for slot i
LiveProcs(i) == { p \in 1..Len(procs) : procs[p].slot = i /\ procs[p].alive }

(***************************************************************************)
(* The outcomes the environment decides: whether a launch succeeds and     *)
(* whether a terminated process exits within the 5-second wait.            *)
(***************************************************************************)
OkChoices(n) == IF n < MaxFaults THEN {TRUE, FALSE} ELSE {TRUE}

WaitChoices(ps, pid, n) ==
    IF pid # 0 /\ ps[pid].alive /\ n < MaxFaults THEN {TRUE, FALSE} ELSE {TRUE}

\* every result of one switch_config call, with the count of faults after it
SwitchOutcomes(insts, ps, which, inst_id, new_config, n) ==
    UNION {
      { [instances |-> switch_config(insts, ps, which, inst_id, new_config, w, ok).instances,
         procs     |-> switch_config(insts, ps, which, inst_id, new_config, w, ok).procs,
         faults    |-> n + (IF ok THEN 0 ELSE 1) + (IF w THEN 0 ELSE 1),
         raised    |-> FALSE,
         at        |-> "",
         switched  |-> <<inst_id, new_config>>] :
           ok \in OkChoices(n + (IF w THEN 0 ELSE 1)) }
      : w \in WaitChoices(ps, insts[inst_id].process, n) }

(***************************************************************************)
(* EnhancedSAScheduler.                                                    *)
(***************************************************************************)
\* a constructor that launches the first slot only
init_all_first_only(insts, ps, which, ids, cfgpool, n) ==
    IF ids = <<>>
    THEN { [instances |-> insts, procs |-> ps, faults |-> n] }
    ELSE { [instances |-> o.instances, procs |-> o.procs, faults |-> o.faults] :
             o \in UNION { SwitchOutcomes(insts, ps, which, Head(ids), cfg, n) :
                             cfg \in Range(cfgpool) } }

RECURSIVE init_all(_, _, _, _, _, _)
\* the loop of EnhancedSAScheduler.__init__ over the slots ids (in dict order):
\* cfg = random.choice(args.config_pool); pool.switch_config(inst_id, cfg)
init_all(insts, ps, which, ids, cfgpool, n) ==
    IF ids = <<>>
    THEN { [instances |-> insts, procs |-> ps, faults |-> n] }
    ELSE UNION { init_all(o.instances, o.procs, which, Tail(ids), cfgpool, o.faults) :
                   o \in UNION { SwitchOutcomes(insts, ps, which, Head(ids), cfg, n) :
                                   cfg \in Range(cfgpool) } }

\* an energy that adds the coverage term where it should subtract it
calculate_energy_adds(insts, cov, active_set) ==
    LET ids == SetToSeq(active_set)
        resource_cost == [k \in 1..Len(ids) |-> insts[ids[k]].weight]
        RECURSIVE RSum(_)
        RSum(q) == IF q = <<>> THEN R(0) ELSE RAdd(Head(q), RSum(Tail(q)))
        coverage == get_merged_coverage(cov, ids)
    IN  RAdd(RMul(<<7, 10>>, RSum(resource_cost)), RMul(<<3, 10>>, R(coverage)))

\* EnhancedSAScheduler._calculate_energy
calculate_energy(insts, cov, active_set) ==
    LET ids == SetToSeq(active_set)
        resource_cost == [k \in 1..Len(ids) |-> insts[ids[k]].weight]
        RECURSIVE RSum(_)
        RSum(q) == IF q = <<>> THEN R(0) ELSE RAdd(Head(q), RSum(Tail(q)))
        coverage == get_merged_coverage(cov, ids)
    IN  RSub(RMul(<<7, 10>>, RSum(resource_cost)), RMul(<<3, 10>>, R(coverage)))

\* cov / (weight + 1e-6), kept as the pair <<cov, weight + 1e-6 in millionths>>
\* (the quotient itself needs more than 32 bits)
efficiency(insts, cov, inst_id) ==
    LET w == insts[inst_id].weight
    IN  << get_instance_coverage(cov, inst_id), w[1] * (1000000 \div w[2]) + 1 >>

\* x[1] <= y[1] as the sort compares two such entries, by cross-multiplication
EffLeq(x, y) == x[1] * y[2] <= y[1] * x[2]

\* the slots sort() may put first: those of the least efficiency
worst_ids(insts, cov, current_set) ==
    { i \in current_set :
        \A j \in current_set : EffLeq(efficiency(insts, cov, i), efficiency(insts, cov, j)) }

Unchanged(insts, ps, n, raised, at) ==
    [instances |-> insts, procs |-> ps, faults |-> n,
     raised |-> raised, at |-> at, switched |-> <<>>]

\* EnhancedSAScheduler._optimize_by_efficiency
optimize_by_efficiency(insts, ps, cov, cfgpool, current_set, n) ==
    IF current_set = {}
    THEN { Unchanged(insts, ps, n, FALSE, "") }
    ELSE UNION {
           LET alternatives == SelectSeq(cfgpool,
                                 LAMBDA c : c # insts[worst_id].current_config)
           IN  IF alternatives = <<>>
               \* random.choice([]) raises IndexError
               THEN { Unchanged(insts, ps, n, TRUE, "_optimize_by_efficiency") }
               ELSE UNION { SwitchOutcomes(insts, ps, "ResourcePool", worst_id, new_config, n) :
                              new_config \in Range(alternatives) }
           : worst_id \in worst_ids(insts, cov, current_set) }

\* an exploration that draws its slot from the whole pool
random_exploration_any_slot(insts, ps, cfgpool, current_set, n) ==
    UNION { SwitchOutcomes(insts, ps, "ResourcePool", inst_id, new_config, n) :
              inst_id \in DOMAIN insts, new_config \in Range(cfgpool) }

\* EnhancedSAScheduler._random_exploration
random_exploration(insts, ps, cfgpool, current_set, n) ==
    IF current_set = {}
    \* random.choice(list(current_set)) raises IndexError
    THEN { Unchanged(insts, ps, n, TRUE, "_random_exploration") }
    ELSE UNION { SwitchOutcomes(insts, ps, "ResourcePool", inst_id, new_config, n) :
                   inst_id \in current_set, new_config \in Range(cfgpool) }

\* a candidate that is chosen but whose switch is not made on the pool
generate_candidate_not_applied(insts, ps, cov, cfgpool, current_set, n) ==
    { [o EXCEPT !.instances = insts, !.procs = ps] :
        o \in optimize_by_efficiency(insts, ps, cov, cfgpool, current_set, n)
                 \cup random_exploration(insts, ps, cfgpool, current_set, n) }

\* EnhancedSAScheduler._generate_candidate: either policy may be drawn
generate_candidate(insts, ps, cov, cfgpool, current_set, n) ==
    optimize_by_efficiency(insts, ps, cov, cfgpool, current_set, n)
      \cup random_exploration(insts, ps, cfgpool, current_set, n)

\* whether random.random() < accept_prob may come out true, false or both:
\* accept_prob is 1.0 unless candidate_e > current_e, and then it is
\* exp(-(candidate_e - current_e) / temp), which is at least 1 for temp < 0
accept_choices(current_e, candidate_e, t) ==
    IF RLess(current_e, candidate_e) /\ t[1] > 0 THEN {TRUE, FALSE} ELSE {TRUE}

\* the division by temp in accept_prob raises ZeroDivisionError
accept_raises(current_e, candidate_e, t) ==
    RLess(current_e, candidate_e) /\ t[1] = 0

\* the counter of a step that forgets to count an accepted step without
\* improvement
stagnation_never_counts(accepted, candidate_e, best, stag) ==
    IF accepted /\ RLess(candidate_e, best) THEN 0 ELSE stag

\* lines 443-450 of step: the stagnation counter after the acceptance test
stagnation_after(accepted, candidate_e, best, stag) ==
    IF accepted
    THEN IF RLess(candidate_e, best) THEN 0 ELSE stag + 1
    ELSE stag

\* cooling that divides by the rate where it should multiply
cool_divides(t, a) ==
    RMax(Norm(t[1] * a.cool_rate[2], t[2] * a.cool_rate[1]), a.min_temp)

\* cooling that applies the floor before the rate, not after it
cool_floor_first(t, a) == RMul(RMax(t, a.min_temp), a.cool_rate)

\* line 453 of step: temp = max(temp * cool_rate, min_temp)
cool(t, a) == RMax(RMul(t, a.cool_rate), a.min_temp)

\* line 437 of step: the energy called current_e, read after the candidate
\* has been generated (before holds the instances as they were before it)
current_energy(before, after, cov, current_active) ==
    calculate_energy(after, cov, current_active)

\* EnhancedSAScheduler.step: every result of one call
step(insts, ps, cov, a, t, best_s, best_e, stag, n) ==
    LET current_active == { i \in DOMAIN insts : insts[i].active }
    IN  UNION {
          IF g.raised
          THEN { [raised |-> TRUE, error |-> "IndexError", at |-> g.at, gen |-> g,
                  temp |-> t, best_state |-> best_s, best_energy |-> best_e,
                  stagnation |-> stag, log |-> NoStep] }
          ELSE LET candidate == current_active
                   current_e == current_energy(insts, g.instances, cov, current_active)
                   candidate_e == calculate_energy(g.instances, cov, candidate)
               IN  IF accept_raises(current_e, candidate_e, t)
                   THEN { [raised |-> TRUE, error |-> "ZeroDivisionError", at |-> "step",
                           gen |-> g, temp |-> t, best_state |-> best_s,
                           best_energy |-> best_e, stagnation |-> stag, log |-> NoStep] }
                   ELSE { [raised |-> FALSE, error |-> "none", at |-> "", gen |-> g,
                           temp |-> cool(t, a),
                           best_state |-> IF accepted /\ RLess(candidate_e, best_e)
                                          THEN candidate ELSE best_s,
                           best_energy |-> IF accepted /\ RLess(candidate_e, best_e)
                                           THEN candidate_e ELSE best_e,
                           stagnation |-> stagnation_after(accepted, candidate_e, best_e, stag),
                           log |-> [done |-> TRUE, active |-> current_active,
                                    switched |-> g.switched,
                                    current_e |-> current_e, candidate_e |-> candidate_e,
                                    accepted |-> accepted, best_before |-> best_e,
                                    stagnation_before |-> stag, temp_before |-> t]] :
                         accepted \in accept_choices(current_e, candidate_e, t) }
          : g \in generate_candidate(insts, ps, cov, a.config_pool, current_active, n) }

\* the test with > where the driver has >=
needs_reset_late(stag, a) == stag > a.max_stagnant

\* main, line 500: the test of the stagnation-triggered reset
needs_reset(stag, a) == stag >= a.max_stagnant

(***************************************************************************)
(* CoverageMonitor.refresh: the snapshots and modification times after it. *)
(***************************************************************************)
RECURSIVE refresh_from(_, _, _, _, _)
refresh_from(insts, files, cov, upd, ids) ==
    IF ids = <<>> THEN [edge_coverage |-> cov, last_update |-> upd]
    ELSE LET i == Head(ids)
             f == files[insts[i].shm_paths.cov_edge]
             \* getmtime raises on a missing file; the except clause logs it
             fresh == insts[i].active /\ f.exists /\ f.mtime > upd[i] /\ f.data # <<>>
         IN  refresh_from(insts, files,
                          IF fresh THEN [cov EXCEPT ![i] = f.data] ELSE cov,
                          IF fresh THEN [upd EXCEPT ![i] = f.mtime] ELSE upd,
                          Tail(ids))

\* a refresh that returns without reading any region
refresh_reads_nothing(insts, files, cov, upd) ==
    [edge_coverage |-> cov, last_update |-> upd]

\* a refresh that also reads the regions of inactive slots
refresh_ignores_active(insts, files, cov, upd) ==
    refresh_from([i \in DOMAIN insts |-> [insts[i] EXCEPT !.active = TRUE]],
                 files, cov, upd, SetToSeq(DOMAIN insts))

refresh(insts, files, cov, upd) ==
    refresh_from(insts, files, cov, upd, SetToSeq(DOMAIN insts))

(***************************************************************************)
(* main(): the state on entry, after parse_args.                           *)
(***************************************************************************)
Init ==
    /\ args \in parse_args
    /\ pc = "adjust"
    /\ pool = "None"
    /\ error = "none"
    /\ error_at = ""
    /\ iteration = 0
    /\ shm = [p \in ShmPaths(args) |-> NoFile]
    /\ procs = <<>>
    /\ opt_instances = <<>>
    /\ instances = <<>>
    /\ edge_coverage = <<>>
    /\ last_update = <<>>
    /\ temp = R(0)
    /\ best_state = {}
    /\ best_energy = Inf
    /\ stagnation = 0
    /\ cleanup_calls = 0
    /\ faults = 0
    /\ last_step = NoStep
    /\ async_edge_coverage = <<>>
    /\ async_last_update = <<>>
    /\ refresh_lock = "free"
    /\ worker_pc = "unstarted"
    /\ worker_todo = <<>>
    /\ worker_wrote = {}
    /\ fg_pc = "idle"
    /\ fg_todo = <<>>
    /\ fg_seen = NoReads
    /\ call = NoCall

\* lines 460-462: the automatic adjustment for large fleets
MainAdjust ==
    /\ pc = "adjust"
    /\ args' = IF args.num_instances >= LargeFleet
               THEN [args EXCEPT !.max_stagnant =
                       IF args.max_stagnant < LargeFleetMaxStagnant
                       THEN args.max_stagnant ELSE LargeFleetMaxStagnant]
               ELSE args
    /\ pc' = "opt_pool"
    /\ UNCHANGED << pool, error, error_at, iteration, shm, procs, opt_instances,
                    instances, monitorVars, schedVars, cleanup_calls, faults, asyncVars, call >>

\* line 464: pool = OptimizedResourcePool(args).  _create_shm_parallel creates the
\* absent files; a dd that fails is logged and leaves its file absent.
MainOptPool ==
    /\ pc = "opt_pool"
    /\ \E created \in { c \in SUBSET ShmPaths(args) :
                         faults + Cardinality(ShmPaths(args) \ c) <= MaxFaults } :
         /\ shm' = [p \in DOMAIN shm |-> IF p \in created /\ ~shm[p].exists
                                         THEN ZeroFile ELSE shm[p]]
         /\ faults' = faults + Cardinality(ShmPaths(args) \ created)
    /\ opt_instances' = init_pool_instances(args)
    /\ pool' = "OptimizedResourcePool"
    /\ pc' = "async_monitor"
    /\ UNCHANGED << args, error, error_at, iteration, procs, instances, monitorVars,
                    schedVars, cleanup_calls, asyncVars, call >>

\* line 465: monitor = AsyncCoverageMonitor(pool); the refresh thread starts
MainAsyncMonitor ==
    /\ pc = "async_monitor"
    /\ async_edge_coverage' = [i \in DOMAIN opt_instances |-> <<>>]
    /\ async_last_update' = [i \in DOMAIN opt_instances |-> 0]
    /\ worker_pc' = "acquire"
    /\ pc' = "hp_scheduler"
    /\ UNCHANGED << args, pool, error, error_at, iteration, shm, procs, opt_instances,
                    instances, monitorVars, schedVars, cleanup_calls, faults,
                    refresh_lock, worker_todo, worker_wrote, fg_pc, fg_todo, fg_seen,
                    call >>

\* lines 466-467: scheduler = HighPerformanceSAScheduler(pool, monitor, args), whose
\* inherited __init__ launches a worker for every slot of the pool; pool = None
MainHPScheduler ==
    /\ pc = "hp_scheduler"
    /\ \E o \in init_all(opt_instances, procs, "OptimizedResourcePool",
                         SetToSeq(DOMAIN opt_instances), args.config_pool, faults) :
         /\ opt_instances' = o.instances
         /\ procs' = o.procs
         /\ faults' = o.faults
    /\ pool' = "None"
    /\ pc' = "pool"
    /\ UNCHANGED << args, error, error_at, iteration, shm, instances, monitorVars,
                    schedVars, cleanup_calls, asyncVars, call >>

\* line 475: pool = ResourcePool(args).  _create_shm runs dd with check=True for
\* every absent file, in path order; a failing dd raises CalledProcessError out
\* of the constructor, so pool keeps the value None.  (A file is absent here
\* because its dd failed at line 464; that it fails again is no new fault.)
MainPool ==
    /\ pc = "pool"
    /\ LET absent == { p \in DOMAIN shm : ~shm[p].exists }
       IN  \E failing \in {<<>>} \cup { <<p>> : p \in absent } :
             IF failing = <<>>
             THEN /\ shm' = [p \in DOMAIN shm |-> IF shm[p].exists THEN shm[p] ELSE ZeroFile]
                  /\ instances' = init_pool_instances(args)
                  /\ pool' = "ResourcePool"
                  /\ pc' = "monitor"
                  /\ UNCHANGED << error, error_at >>
             ELSE /\ shm' = [p \in DOMAIN shm |->
                               IF ~shm[p].exists /\ PathRank(p) < PathRank(failing[1])
                               THEN ZeroFile ELSE shm[p]]
                  /\ error' = "CalledProcessError"
                  /\ error_at' = "_create_shm"
                  /\ pc' = "finally"
                  /\ UNCHANGED << instances, pool >>
    /\ UNCHANGED << args, iteration, procs, opt_instances, monitorVars, schedVars,
                    cleanup_calls, faults, asyncVars, call >>

\* line 476: monitor = CoverageMonitor(pool)
MainMonitor ==
    /\ pc = "monitor"
    /\ edge_coverage' = [i \in DOMAIN instances |-> <<>>]
    /\ last_update' = [i \in DOMAIN instances |-> 0]
    /\ pc' = "scheduler"
    /\ UNCHANGED << args, pool, error, error_at, iteration, shm, procs, opt_instances,
                    instances, schedVars, cleanup_calls, faults,
                    asyncVars, call >>

\* line 477: scheduler = EnhancedSAScheduler(pool, monitor, args)
MainScheduler ==
    /\ pc = "scheduler"
    /\ temp' = args.init_temp
    /\ best_state' = {}
    /\ best_energy' = Inf
    /\ stagnation' = 0
    /\ \E o \in init_all(instances, procs, "ResourcePool",
                         SetToSeq(DOMAIN instances), args.config_pool, faults) :
         /\ instances' = o.instances
         /\ procs' = o.procs
         /\ faults' = o.faults
    /\ pc' = "refresh"
    /\ UNCHANGED << args, pool, error, error_at, iteration, shm, opt_instances,
                    monitorVars, cleanup_calls, last_step, asyncVars, call >>

\* lines 480-485: iteration += 1; monitor.refresh()
MainRefresh ==
    /\ pc = "refresh"
    /\ iteration < MaxIter
    /\ iteration' = iteration + 1
    /\ LET r == refresh(instances, shm, edge_coverage, last_update)
       IN  /\ edge_coverage' = r.edge_coverage
           /\ last_update' = r.last_update
    /\ pc' = "step"
    /\ UNCHANGED << args, pool, error, error_at, shm, procs, opt_instances, instances,
                    schedVars, cleanup_calls, faults, asyncVars, call >>

\* line 486: scheduler.step(); an exception leaves the loop for the except clause
MainStep ==
    /\ pc = "step"
    /\ \E o \in step(instances, procs, edge_coverage, args, temp, best_state,
                     best_energy, stagnation, faults) :
         /\ instances' = o.gen.instances
         /\ procs' = o.gen.procs
         /\ faults' = o.gen.faults
         /\ temp' = o.temp
         /\ best_state' = o.best_state
         /\ best_energy' = o.best_energy
         /\ stagnation' = o.stagnation
         /\ last_step' = IF o.raised THEN last_step ELSE o.log
         /\ error' = o.error
         /\ error_at' = o.at
         /\ pc' = IF o.raised THEN "finally" ELSE "report"
    /\ UNCHANGED << args, pool, iteration, shm, opt_instances, monitorVars,
                    cleanup_calls, asyncVars, call >>

\* lines 489-498: the status report; it reads the pool and the monitor only
MainReport ==
    /\ pc = "report"
    /\ pc' = "check"
    /\ UNCHANGED << args, pool, error, error_at, iteration, shm, procs, opt_instances,
                    instances, monitorVars, schedVars, cleanup_calls, faults, asyncVars, call >>

\* a stagnation check whose reset also forgets the best state found
MainCheck_forgets_best ==
    /\ pc = "check"
    /\ temp' = IF needs_reset(stagnation, args) THEN args.init_temp ELSE temp
    /\ stagnation' = IF needs_reset(stagnation, args) THEN 0 ELSE stagnation
    /\ best_energy' = IF needs_reset(stagnation, args) THEN Inf ELSE best_energy
    /\ best_state' = IF needs_reset(stagnation, args) THEN {} ELSE best_state
    /\ pc' = "sleep"
    /\ UNCHANGED << args, pool, error, error_at, iteration, shm, procs, opt_instances,
                    instances, monitorVars, last_step, cleanup_calls, faults,
                    asyncVars, call >>

\* lines 500-503: the stagnation-triggered reset
MainCheck ==
    /\ pc = "check"
    /\ temp' = IF needs_reset(stagnation, args) THEN args.init_temp ELSE temp
    /\ stagnation' = IF needs_reset(stagnation, args) THEN 0 ELSE stagnation
    /\ pc' = "sleep"
    /\ UNCHANGED << args, pool, error, error_at, iteration, shm, procs, opt_instances,
                    instances, monitorVars, best_state, best_energy, last_step,
                    cleanup_calls, faults, asyncVars, call >>

\* line 505: time.sleep(args.interval), then the next round of the loop
MainSleep ==
    /\ pc = "sleep"
    /\ pc' = "refresh"
    /\ UNCHANGED << args, pool, error, error_at, iteration, shm, procs, opt_instances,
                    instances, monitorVars, schedVars, cleanup_calls, faults, asyncVars, call >>

TryPcs == {"pool", "monitor", "scheduler", "refresh", "step", "report", "check", "sleep"}
BeforeTryPcs == {"adjust", "opt_pool", "async_monitor", "hp_scheduler"}
\* where main blocks, and so where an interrupt finds it: the constructors
\* (dd, Popen) and time.sleep
InterruptPcs == {"opt_pool", "hp_scheduler", "pool", "scheduler", "sleep"}

\* KeyboardInterrupt: inside the try block it is caught (line 507) and main goes
\* on to the finally clause; before the try block nothing catches it
Interrupt ==
    /\ pc \in InterruptPcs
    /\ error' = "KeyboardInterrupt"
    /\ error_at' = pc
    /\ pc' = IF pc \in TryPcs THEN "finally" ELSE "exited"
    /\ UNCHANGED << args, pool, iteration, shm, procs, opt_instances, instances,
                    monitorVars, schedVars, cleanup_calls, faults,
                    asyncVars, call >>

\* lines 511-516: the finally clause: "if pool: pool.cleanup()"
MainFinally ==
    /\ pc = "finally"
    /\ shm' = IF pool # "None" THEN cleanup(shm, instances) ELSE shm
    /\ cleanup_calls' = IF pool # "None" THEN cleanup_calls + 1 ELSE cleanup_calls
    /\ pc' = "exited"
    /\ UNCHANGED << args, pool, error, error_at, iteration, procs, opt_instances,
                    instances, monitorVars, schedVars, faults,
                    asyncVars, call >>

\* the writes made so far
Writes == SumSeq([k \in 1..Len(SetToSeq(SlotIds(args))) |->
                    shm[<<"edge", SetToSeq(SlotIds(args))[k]>>].writes])

\* a live worker process sets bits in the edge region of its slot, while main
\* is at one of the statements at
WorkerWriteAt(at) ==
    /\ pc \in at
    /\ \E p \in 1..Len(procs), k \in 1..RegionLen, mask \in WriteMasks :
         LET path == <<"edge", procs[p].slot>>
             f == shm[path]
         IN  /\ procs[p].alive
             /\ f.exists
             /\ Writes < MaxWrites
             /\ OrByte(f.data[k], mask) # f.data[k]
             /\ shm' = [shm EXCEPT ![path] =
                          [f EXCEPT !.data[k] = OrByte(f.data[k], mask),
                                    !.mtime = f.mtime + 1,
                                    !.writes = f.writes + 1]]
    /\ UNCHANGED << args, pc, pool, error, error_at, iteration, procs, opt_instances,
                    instances, monitorVars, schedVars, cleanup_calls, faults, asyncVars, call >>

\* The driver sees a write only through its next refresh(), so the writes are
\* taken where the driver is about to refresh: while it sleeps, or before its
\* first round.
WorkerWrite == WorkerWriteAt({"refresh"})

Next ==
    \/ MainAdjust
    \/ MainOptPool
    \/ MainAsyncMonitor
    \/ MainHPScheduler
    \/ MainPool
    \/ MainMonitor
    \/ MainScheduler
    \/ MainRefresh
    \/ MainStep
    \/ MainReport
    \/ MainCheck
    \/ MainSleep
    \/ Interrupt
    \/ MainFinally
    \/ WorkerWrite

Spec == Init /\ [][Next]_vars

(***************************************************************************)
(* AsyncCoverageMonitor: the thread running _async_refresh, and a scheduler *)
(* calling get_merged_coverage on the monitor from the main thread.  main() *)
(* builds this monitor and its scheduler (lines 464-466) and then steps the *)
(* synchronous pair; SpecAsync lets the main thread use the first pair      *)
(* instead, as HighPerformanceSAScheduler._calculate_energy does.  The      *)
(* thread touches only the monitor's own snapshots, which nothing in Spec   *)
(* reads, so Spec leaves its steps out.                                     *)
(***************************************************************************)
mainVars == << args, pc, pool, error, error_at, iteration, procs, opt_instances,
               instances, monitorVars, schedVars, cleanup_calls, faults >>

\* lines 59-63: "with self.refresh_lock:" and the list of active instances
AsyncAcquire ==
    /\ worker_pc = "acquire"
    /\ refresh_lock = "free"
    /\ refresh_lock' = "worker"
    /\ worker_todo' = SetToSeq({ i \in DOMAIN opt_instances : opt_instances[i].active })
    /\ worker_pc' = "batch"
    \* a new cycle: what the call saw of the last one no longer counts
    /\ worker_wrote' = {}
    /\ fg_seen' = [fg_seen EXCEPT !.old = {}, !.new = {}]
    /\ UNCHANGED << call, mainVars, shm, async_edge_coverage, async_last_update,
                    fg_pc, fg_todo >>

\* lines 75-89: one round of the loop of _process_batch
AsyncProcess ==
    /\ worker_pc = "batch"
    /\ worker_todo # <<>>
    /\ LET inst_id == Head(worker_todo)
           f == shm[opt_instances[inst_id].shm_paths.cov_edge]
           fresh == f.exists /\ f.mtime > async_last_update[inst_id] /\ f.data # <<>>
       IN  /\ async_edge_coverage' =
                IF fresh THEN [async_edge_coverage EXCEPT ![inst_id] = f.data]
                ELSE async_edge_coverage
           /\ async_last_update' =
                IF fresh THEN [async_last_update EXCEPT ![inst_id] = f.mtime]
                ELSE async_last_update
           /\ worker_wrote' = IF fresh /\ fg_pc = "merging"
                              THEN worker_wrote \cup {inst_id} ELSE worker_wrote
           /\ fg_seen' = IF fresh /\ fg_pc = "merging" /\ inst_id \in fg_seen.read
                         THEN [fg_seen EXCEPT !.old = @ \cup {inst_id}] ELSE fg_seen
    /\ worker_todo' = Tail(worker_todo)
    /\ UNCHANGED << call, mainVars, shm, refresh_lock, worker_pc, fg_pc, fg_todo >>

\* the end of the with block (line 69), then time.sleep(5)
AsyncRelease ==
    /\ worker_pc = "batch"
    /\ worker_todo = <<>>
    /\ refresh_lock' = "free"
    /\ worker_pc' = "sleep"
    /\ UNCHANGED << call, mainVars, shm, async_edge_coverage, async_last_update, worker_todo,
                    worker_wrote, fg_pc, fg_todo, fg_seen >>

\* line 71 returns; the while loop goes round
AsyncWake ==
    /\ worker_pc = "sleep"
    /\ worker_pc' = "acquire"
    /\ UNCHANGED << call, mainVars, shm, async_edge_coverage, async_last_update, refresh_lock,
                    worker_todo, worker_wrote, fg_pc, fg_todo, fg_seen >>

\* lines 91-99: the main thread enters get_merged_coverage with the active
\* slots; the method takes no lock
FgMergedBegin ==
    /\ pc = "pool"
    /\ fg_pc = "idle"
    /\ { i \in DOMAIN opt_instances : opt_instances[i].active } # {}
    /\ fg_todo' = SetToSeq({ i \in DOMAIN opt_instances : opt_instances[i].active })
    /\ fg_seen' = NoReads
    /\ worker_wrote' = {}
    /\ fg_pc' = "merging"
    /\ UNCHANGED << call, mainVars, shm, async_edge_coverage, async_last_update, refresh_lock,
                    worker_pc, worker_todo >>

\* lines 102-105: one round of the loop: data = self.edge_coverage.get(inst_id, b'')
FgMergedRead ==
    /\ fg_pc = "merging"
    /\ fg_todo # <<>>
    /\ LET inst_id == Head(fg_todo)
       IN  fg_seen' = [fg_seen EXCEPT
                         !.read = @ \cup {inst_id},
                         !.new = IF inst_id \in worker_wrote THEN @ \cup {inst_id} ELSE @]
    /\ fg_todo' = Tail(fg_todo)
    /\ UNCHANGED << call, mainVars, shm, async_edge_coverage, async_last_update, refresh_lock,
                    worker_pc, worker_todo, worker_wrote, fg_pc >>

\* line 107: the call returns
FgMergedEnd ==
    /\ fg_pc = "merging"
    /\ fg_todo = <<>>
    /\ fg_pc' = "idle"
    /\ UNCHANGED << call, mainVars, shm, async_edge_coverage, async_last_update, refresh_lock,
                    worker_pc, worker_todo, worker_wrote, fg_todo, fg_seen >>

\* the workers of the first pool write while the main thread uses the first pair
FleetWrite == WorkerWriteAt({"pool"})

NextAsync ==
    \/ MainAdjust
    \/ MainOptPool
    \/ MainAsyncMonitor
    \/ MainHPScheduler
    \/ AsyncAcquire
    \/ AsyncProcess
    \/ AsyncRelease
    \/ AsyncWake
    \/ FgMergedBegin
    \/ FgMergedRead
    \/ FgMergedEnd
    \/ FleetWrite

SpecAsync == Init /\ [][NextAsync]_vars

(***************************************************************************)
(* The cooling recurrence of step (line 453) on its own: the temperature    *)
(* of a scheduler that is stepped again and again and never reset.          *)
(***************************************************************************)
\* the steps counted before the counter saturates
MaxCoolSteps == 10

CoolInitTemps == {1, 3, 10, 12}
CoolRates == { <<1, 2>>, <<3, 4>>, R(1) }
CoolMinTemps == {1, 2}

InitCool ==
    /\ args \in { Args(1, 1, <<"tls.xml">>, <<R(t), c, R(m)>>, 2) :
                    t \in CoolInitTemps, c \in CoolRates, m \in CoolMinTemps }
    /\ pc = "cooling"
    /\ temp = args.init_temp
    /\ iteration = 0
    /\ pool = "None"
    /\ error = "none"
    /\ error_at = ""
    /\ shm = [p \in ShmPaths(args) |-> NoFile]
    /\ procs = <<>>
    /\ opt_instances = <<>>
    /\ instances = <<>>
    /\ edge_coverage = <<>>
    /\ last_update = <<>>
    /\ best_state = {}
    /\ best_energy = Inf
    /\ stagnation = 0
    /\ cleanup_calls = 0
    /\ faults = 0
    /\ last_step = NoStep
    /\ async_edge_coverage = <<>>
    /\ async_last_update = <<>>
    /\ refresh_lock = "free"
    /\ worker_pc = "unstarted"
    /\ worker_todo = <<>>
    /\ worker_wrote = {}
    /\ fg_pc = "idle"
    /\ fg_todo = <<>>
    /\ fg_seen = NoReads
    /\ call = NoCall

\* line 453, once more; iteration counts the steps taken
CoolStep ==
    /\ pc = "cooling"
    /\ temp' = cool(temp, args)
    /\ iteration' = IF iteration < MaxCoolSteps THEN iteration + 1 ELSE iteration
    /\ UNCHANGED << args, pc, pool, error, error_at, shm, procs, opt_instances,
                    instances, monitorVars, best_state, best_energy, stagnation,
                    last_step, cleanup_calls, faults, asyncVars, call >>

SpecCool == InitCool /\ [][CoolStep]_vars /\ WF_vars(CoolStep)

(***************************************************************************)
(* Functions called on their own.  The state is that of a program in which *)
(* nothing has been built yet; call holds the arguments and the result of   *)
(* the one call a behaviour makes.                                         *)
(***************************************************************************)
\* the state before any call, with pc naming the function under study
InitAlone(p) ==
    /\ args = Args(1, 1, <<"tls.xml">>, <<R(10), <<1, 2>>, R(1)>>, 2)
    /\ pc = p
    /\ pool = "None"
    /\ error = "none"
    /\ error_at = ""
    /\ iteration = 0
    /\ shm = [q \in ShmPaths(args) |-> NoFile]
    /\ procs = <<>>
    /\ opt_instances = <<>>
    /\ instances = <<>>
    /\ edge_coverage = <<>>
    /\ last_update = <<>>
    /\ temp = R(0)
    /\ best_state = {}
    /\ best_energy = Inf
    /\ stagnation = 0
    /\ cleanup_calls = 0
    /\ faults = 0
    /\ last_step = NoStep
    /\ async_edge_coverage = <<>>
    /\ async_last_update = <<>>
    /\ refresh_lock = "free"
    /\ worker_pc = "unstarted"
    /\ worker_todo = <<>>
    /\ worker_wrote = {}
    /\ fg_pc = "idle"
    /\ fg_todo = <<>>
    /\ fg_seen = NoReads
    /\ call = NoCall

\* everything but call
aloneVars == << args, pc, pool, error, error_at, iteration, shm, procs, opt_instances,
                instances, monitorVars, schedVars, cleanup_calls, faults, asyncVars >>

\* the longest snapshot and the most slots the calls are made with
MaxSnapLen == 2
MaxMergeSlots == 2

\* the byte values of the snapshots
SnapBytes == {15, 240, 255}

RECURSIVE SeqsUpTo(_, _)
\* the byte strings over S of length at most n
SeqsUpTo(S, n) ==
    IF n = 0 THEN { <<>> }
    ELSE LET shorter == SeqsUpTo(S, n - 1)
         IN  shorter \cup { Append(q, b) : q \in { x \in shorter : Len(x) = n - 1 }, b \in S }

SnapChoices == SeqsUpTo(SnapBytes, MaxSnapLen)

MergeSlots == 1..MaxMergeSlots

\* the contents self.edge_coverage can have: every slot has a snapshot or none
SnapshotMaps == UNION { [D -> SnapChoices] : D \in SUBSET MergeSlots }

RECURSIVE Orders(_)
\* the lists that hold every member of S once
Orders(S) ==
    IF S = {} THEN { <<>> }
    ELSE UNION { { <<x>> \o q : q \in Orders(S \ {x}) } : x \in S }

\* the lists of slot ids a caller can pass as active_instances
SlotLists == UNION { Orders(S) : S \in SUBSET MergeSlots }

\* CoverageMonitor.get_merged_coverage(active_instances)
CallMergedCoverage ==
    /\ pc = "merge"
    /\ call = NoCall
    /\ \E cov \in SnapshotMaps, ids \in SlotLists :
         call' = [fn |-> "get_merged_coverage", cov |-> cov, ids |-> ids,
                  result |-> get_merged_coverage(cov, ids)]
    /\ UNCHANGED aloneVars

\* CoverageMonitor.get_instance_coverage(inst_id)
CallInstanceCoverage ==
    /\ pc = "merge"
    /\ call = NoCall
    /\ \E cov \in SnapshotMaps, i \in MergeSlots :
         call' = [fn |-> "get_instance_coverage", cov |-> cov, ids |-> <<i>>,
                  result |-> get_instance_coverage(cov, i)]
    /\ UNCHANGED aloneVars

\* bit.py: merge_content(base_data, new_content)
CallMergeContent ==
    /\ pc = "merge"
    /\ call = NoCall
    /\ \E a \in SnapChoices, b \in SnapChoices :
         call' = [fn |-> "merge_content", base_data |-> a, new_content |-> b,
                  result |-> merge_content(a, b)]
    /\ UNCHANGED aloneVars

NextMerge == CallMergedCoverage \/ CallInstanceCoverage \/ CallMergeContent

SpecMerge == InitAlone("merge") /\ [][NextMerge]_vars

\* the weights _calc_weight gives
WeightChoices == { R(1), <<3, 2>>, R(2) }

\* the instance tables, as far as _calculate_energy reads them
WeightTables == [MergeSlots -> [weight : WeightChoices]]

\* the snapshots the energy is computed with
EnergySnaps == [MergeSlots -> { <<>>, <<15>>, <<240>> }]

\* EnhancedSAScheduler._calculate_energy(active_set)
CallCalculateEnergy ==
    /\ pc = "energy"
    /\ call = NoCall
    /\ \E insts \in WeightTables, cov \in EnergySnaps, active_set \in SUBSET MergeSlots :
         call' = [fn |-> "_calculate_energy", insts |-> insts, cov |-> cov,
                  active_set |-> active_set,
                  result |-> calculate_energy(insts, cov, active_set)]
    /\ UNCHANGED aloneVars

SpecEnergy == InitAlone("energy") /\ [][CallCalculateEnergy]_vars

(***************************************************************************)
(* The pool, the synchronous monitor and the scheduler driven by a caller   *)
(* that is free in what it calls: ResourcePool(args), CoverageMonitor(pool),*)
(* then switch_config, activate, deactivate and refresh in any order, and   *)
(* step once a scheduler has been built.  main itself never calls activate  *)
(* or deactivate.                                                          *)
(***************************************************************************)
\* the calls and the events of the environment in one behaviour, after the
\* constructors
MaxOps == 4

\* the command lines the pool is built from
PoolArgs ==
    { Args(1, 1, <<"tls.xml", "tls_heavy.xml">>, <<R(10), <<1, 2>>, R(1)>>, 2),
      Args(2, 3, <<"tls.xml", "tls_heavy.xml">>, <<R(10), <<1, 2>>, R(1)>>, 2) }

InitPool == InitAlone("construct")

PoolPcs == {"ready", "scheduled"}

\* pool = ResourcePool(args); monitor = CoverageMonitor(pool)
PoolConstruct ==
    /\ pc = "construct"
    /\ \E a \in PoolArgs :
         /\ args' = a
         /\ shm' = [q \in ShmPaths(a) |-> ZeroFile]
         /\ instances' = init_pool_instances(a)
         /\ edge_coverage' = [i \in SlotIds(a) |-> <<>>]
         /\ last_update' = [i \in SlotIds(a) |-> 0]
    /\ pool' = "ResourcePool"
    /\ pc' = "ready"
    /\ UNCHANGED << error, error_at, iteration, procs, opt_instances, schedVars,
                    cleanup_calls, faults, asyncVars, call >>

\* scheduler = EnhancedSAScheduler(pool, monitor, args)
PoolScheduler ==
    /\ pc = "ready"
    /\ iteration < MaxOps
    /\ iteration' = iteration + 1
    /\ temp' = args.init_temp
    /\ best_state' = {}
    /\ best_energy' = Inf
    /\ stagnation' = 0
    /\ \E o \in init_all(instances, procs, "ResourcePool",
                         SetToSeq(DOMAIN instances), args.config_pool, faults) :
         /\ instances' = o.instances
         /\ procs' = o.procs
         /\ faults' = o.faults
    /\ call' = [op |-> iteration + 1, fn |-> "EnhancedSAScheduler"]
    /\ pc' = "scheduled"
    /\ UNCHANGED << args, pool, error, error_at, shm, opt_instances, monitorVars,
                    cleanup_calls, last_step, asyncVars >>

\* pool.switch_config(inst_id, new_config)
PoolSwitchConfig ==
    /\ pc \in PoolPcs
    /\ iteration < MaxOps
    /\ iteration' = iteration + 1
    /\ \E inst_id \in DOMAIN instances, new_config \in Range(args.config_pool) :
         \E o \in SwitchOutcomes(instances, procs, "ResourcePool", inst_id, new_config,
                                 faults) :
           /\ instances' = o.instances
           /\ procs' = o.procs
           /\ faults' = o.faults
           /\ call' = [op |-> iteration + 1, fn |-> "switch_config", inst_id |-> inst_id, config |-> new_config]
    /\ UNCHANGED << args, pc, pool, error, error_at, shm, opt_instances, monitorVars,
                    schedVars, cleanup_calls, asyncVars >>

\* pool.activate(inst_id, config)
PoolActivate ==
    /\ pc \in PoolPcs
    /\ iteration < MaxOps
    /\ iteration' = iteration + 1
    /\ \E inst_id \in DOMAIN instances, config \in Range(args.config_pool) :
         \E w \in WaitChoices(procs, instances[inst_id].process, faults) :
           \E ok \in OkChoices(faults + (IF w THEN 0 ELSE 1)) :
             LET o == activate(instances, procs, "ResourcePool", inst_id, config, w, ok)
             IN  /\ instances' = o.instances
                 /\ procs' = o.procs
                 /\ faults' = IF instances[inst_id].active THEN faults
                              ELSE faults + (IF ok THEN 0 ELSE 1) + (IF w THEN 0 ELSE 1)
                 /\ call' = [op |-> iteration + 1, fn |-> "activate", inst_id |-> inst_id, config |-> config]
    /\ UNCHANGED << args, pc, pool, error, error_at, shm, opt_instances, monitorVars,
                    schedVars, cleanup_calls, asyncVars >>

\* pool.deactivate(inst_id)
PoolDeactivate ==
    /\ pc \in PoolPcs
    /\ iteration < MaxOps
    /\ iteration' = iteration + 1
    /\ \E inst_id \in DOMAIN instances :
         \E w \in WaitChoices(procs, instances[inst_id].process, faults) :
           LET o == deactivate(instances, procs, inst_id, w)
           IN  /\ instances' = o.instances
               /\ procs' = o.procs
               /\ faults' = faults + (IF w THEN 0 ELSE 1)
               /\ call' = [op |-> iteration + 1, fn |-> "deactivate", inst_id |-> inst_id, config |-> "None"]
    /\ UNCHANGED << args, pc, pool, error, error_at, shm, opt_instances, monitorVars,
                    schedVars, cleanup_calls, asyncVars >>

\* monitor.refresh()
PoolRefresh ==
    /\ pc \in PoolPcs
    /\ iteration < MaxOps
    /\ iteration' = iteration + 1
    /\ LET r == refresh(instances, shm, edge_coverage, last_update)
       IN  /\ edge_coverage' = r.edge_coverage
           /\ last_update' = r.last_update
    /\ call' = [op |-> iteration + 1, fn |-> "refresh"]
    /\ UNCHANGED << args, pc, pool, error, error_at, shm, procs, opt_instances,
                    instances, schedVars, cleanup_calls, faults, asyncVars >>

\* scheduler.step(); an exception it raises reaches the caller, who goes on
PoolStep ==
    /\ pc = "scheduled"
    /\ iteration < MaxOps
    /\ iteration' = iteration + 1
    /\ \E o \in step(instances, procs, edge_coverage, args, temp, best_state,
                     best_energy, stagnation, faults) :
         /\ instances' = o.gen.instances
         /\ procs' = o.gen.procs
         /\ faults' = o.gen.faults
         /\ temp' = o.temp
         /\ best_state' = o.best_state
         /\ best_energy' = o.best_energy
         /\ stagnation' = o.stagnation
         /\ last_step' = IF o.raised THEN last_step ELSE o.log
         /\ error' = o.error
         /\ error_at' = o.at
    /\ call' = [op |-> iteration + 1, fn |-> "step"]
    /\ UNCHANGED << args, pc, pool, shm, opt_instances, monitorVars, cleanup_calls,
                    asyncVars >>

\* a worker of the pool sets bits in the edge region of its slot while the
\* caller is between calls
PoolWorkerWrite ==
    /\ pc \in PoolPcs
    /\ iteration < MaxOps
    /\ iteration' = iteration + 1
    /\ \E p \in 1..Len(procs), k \in 1..RegionLen, mask \in WriteMasks :
         LET path == <<"edge", procs[p].slot>>
             f == shm[path]
         IN  /\ procs[p].alive
             /\ f.exists
             /\ k \in DOMAIN f.data
             /\ Writes < MaxWrites
             /\ OrByte(f.data[k], mask) # f.data[k]
             /\ shm' = [shm EXCEPT ![path] =
                          [f EXCEPT !.data[k] = OrByte(f.data[k], mask),
                                    !.mtime = f.mtime + 1,
                                    !.writes = f.writes + 1]]
    /\ UNCHANGED << args, pc, pool, error, error_at, procs, opt_instances, instances,
                    monitorVars, schedVars, cleanup_calls, faults, asyncVars, call >>

\* the region of a slot becomes unreadable: another process removes the file
\* (getmtime raises) or truncates it to no bytes (mmap raises, _safe_read_shm
\* returns b'')
RegionLost ==
    /\ pc \in PoolPcs
    /\ iteration < MaxOps
    /\ iteration' = iteration + 1
    /\ faults < MaxFaults
    /\ faults' = faults + 1
    /\ \E i \in DOMAIN instances, removed \in BOOLEAN :
         LET path == instances[i].shm_paths.cov_edge
             f == shm[path]
         IN  /\ f.exists
             /\ shm' = [shm EXCEPT ![path] =
                          IF removed THEN [f EXCEPT !.exists = FALSE]
                          ELSE [f EXCEPT !.data = <<>>, !.mtime = f.mtime + 1]]
    /\ UNCHANGED << args, pc, pool, error, error_at, procs, opt_instances,
                    instances, monitorVars, schedVars, cleanup_calls, asyncVars, call >>

NextPool ==
    \/ PoolConstruct
    \/ PoolScheduler
    \/ PoolSwitchConfig
    \/ PoolActivate
    \/ PoolDeactivate
    \/ PoolRefresh
    \/ PoolStep
    \/ PoolWorkerWrite
    \/ RegionLost

SpecPool == InitPool /\ [][NextPool]_vars

(***************************************************************************)
(* main() with workers that write their regions between monitor.refresh()  *)
(* and the end of scheduler.step(); the refresh of the next iteration      *)
(* reads what they wrote.                                                  *)
(***************************************************************************)
WorkerWriteDuringStep == WorkerWriteAt({"step"})

NextSync ==
    \/ MainAdjust
    \/ MainOptPool
    \/ MainAsyncMonitor
    \/ MainHPScheduler
    \/ MainPool
    \/ MainMonitor
    \/ MainScheduler
    \/ MainRefresh
    \/ MainStep
    \/ MainReport
    \/ MainCheck
    \/ MainSleep
    \/ Interrupt
    \/ MainFinally
    \/ WorkerWriteDuringStep

\* the command lines with the default temperatures and --max_stagnant 2: one
\* slot with two configurations to switch between, and two slots with one
SyncArgs ==
    { a \in parse_args :
        /\ a.init_temp = R(10) /\ a.max_stagnant = 2
        /\ a.num_instances + Len(a.config_pool) = 3
        /\ Head(a.config_pool) = "tls.xml" }

InitSync == Init /\ args \in SyncArgs

SpecSync == InitSync /\ [][NextSync]_vars

(***************************************************************************)
(* EnhancedSAScheduler._optimize_by_efficiency, the efficiency-guided      *)
(* candidate of the scheduler main() steps (line 477), on fleets of        *)
(* running slots.                                                          *)
(***************************************************************************)
\* the largest fleet: the least size whose twentieth part is 2
MaxFleet == 40

FleetSizes == {1, 2, MaxFleet}

FleetPool == <<"tls.xml", "tls_heavy.xml">>

\* line 332: num_changes = max(1, int(len(current_set)*0.05))
num_changes(n) == IF (n * 5) \div 100 > 1 THEN (n * 5) \div 100 ELSE 1

\* n running slots, all on the first configuration but slot j on the second
Fleet(n, j) ==
    [i \in 1..n |->
        LET config == IF i = j THEN FleetPool[2] ELSE FleetPool[1]
        IN  [id |-> i, active |-> TRUE, process |-> i, current_config |-> config,
             shm_paths |-> shm_paths_of(i), weight |-> calc_weight(config)]]

FleetProcs(n) == [i \in 1..n |-> [slot |-> i, pool |-> "ResourcePool", alive |-> TRUE]]

\* their snapshots: four branches each, none for slot c
FleetSnaps(n, c) == [i \in 1..n |-> IF i = c THEN <<0>> ELSE <<15>>]

CallOptimizeByEfficiency ==
    /\ pc = "candidate"
    /\ call = NoCall
    /\ \E n \in FleetSizes :
         \E j \in {0, 1, n}, c \in {0, 1, n} :
           \E o \in optimize_by_efficiency(Fleet(n, j), FleetProcs(n), FleetSnaps(n, c),
                                           FleetPool, 1..n, 0) :
             call' = [fn |-> "_optimize_by_efficiency", insts |-> Fleet(n, j),
                      cov |-> FleetSnaps(n, c), current_set |-> 1..n,
                      switched |-> o.switched, result |-> o.instances]
    /\ UNCHANGED aloneVars

SpecCandidate == InitAlone("candidate") /\ [][CallOptimizeByEfficiency]_vars

(***************************************************************************)
(* Properties.                                                             *)
(***************************************************************************)

\* C1: at any instant each slot id has at most one live worker process
\* launched for it.
C1_OneLiveProcessPerSlot ==
    \A i \in SlotIds(args) : Cardinality(LiveProcs(i)) <= 1

\* C2: on every way main can end, pool cleanup has run exactly once before
\* the process exits.
C2_CleanupExactlyOnce ==
    pc = "exited" => cleanup_calls = 1

\* C3: when main exits after an interrupt or an error and its cleanup has run,
\* no launched worker is still live and no region of any slot is left.
C3_ExitLeavesNothing ==
    (pc = "exited" /\ error # "none" /\ cleanup_calls > 0)
        => /\ \A p \in 1..Len(procs) : ~procs[p].alive
           /\ \A path \in DOMAIN shm : ~shm[path].exists

\* C4: after a failed launch no later iteration raises: step does not raise in
\* the random-exploration policy, also when every slot has become inactive.
C4_LaunchFailureNeverStopsLoop ==
    (\E i \in DOMAIN instances : ~instances[i].active)
        => ~(error = "IndexError" /\ error_at = "_random_exploration")

\* C5: with one distinct configuration in the pool an efficiency-guided step
\* does not fail.
C5_SingleConfigStepCompletes ==
    Cardinality(Range(args.config_pool)) = 1
        => ~(error = "IndexError" /\ error_at = "_optimize_by_efficiency")

\* C6: a foreground get_merged_coverage on the asynchronous monitor never
\* reads while a refresh cycle is part-way through its writes, so one call
\* never combines a snapshot from before a refresh cycle with one from after it.
C6_ReadsExcludeRefresh ==
    /\ ~(fg_pc = "merging" /\ fg_seen.read # {} /\ fg_todo # <<>>
           /\ refresh_lock = "worker" /\ worker_wrote # {} /\ worker_todo # <<>>)
    /\ ~(fg_seen.old # {} /\ fg_seen.new # {})

\* whether the last completed step's candidate beat the best energy known
\* before it
Improved == RLess(last_step.candidate_e, last_step.best_before)

\* C7: after every step, with bestEnergy as it was before the step, the
\* stagnation counter is 0 exactly if the candidate energy is strictly lower
\* than bestEnergy, and after a step that does not beat bestEnergy it is one
\* more than before the step.
C7_StagnationCounter ==
    pc = "report" =>
        /\ (stagnation = 0 <=> Improved)
        /\ (~Improved => stagnation = last_step.stagnation_before + 1)

\* a step that did not beat bestEnergy has been counted
C7_Witness ==
    /\ pc = "report"
    /\ ~Improved
    /\ last_step.stagnation_before = 1
    /\ stagnation = 2

\* the driver's reset: main is at line 500 with the counter at maxStagnant
AtReset == pc = "check" /\ stagnation >= args.max_stagnant

\* C8 as stated: the driver resets temperature and stagnation once the counter
\* has reached maxStagnant after a step; at the start of every iteration the
\* counter is below maxStagnant; step itself never performs the reset.
C8_Original ==
    /\ [](pc \in {"refresh", "step"} => stagnation < args.max_stagnant)
    /\ [][AtReset => (temp' = args.init_temp /\ stagnation' = 0)]_vars
    /\ [][(pc = "step" /\ pc' = "report") =>
            /\ temp' = RMax(RMul(temp, args.cool_rate), args.min_temp)
            /\ stagnation' \in {0, stagnation + 1}
            /\ (stagnation' = 0 => RLess(last_step'.candidate_e, best_energy))]_vars

\* C8, amended: the same, with the counter below maxStagnant at the start of
\* every iteration whenever maxStagnant is at least 1.
C8_DriverResets ==
    /\ [](pc \in {"refresh", "step"} /\ args.max_stagnant >= 1
             => stagnation < args.max_stagnant)
    /\ [][AtReset => (temp' = args.init_temp /\ stagnation' = 0)]_vars
    /\ [][(pc = "step" /\ pc' = "report") =>
            /\ temp' = RMax(RMul(temp, args.cool_rate), args.min_temp)
            /\ stagnation' \in {0, stagnation + 1}
            /\ (stagnation' = 0 => RLess(last_step'.candidate_e, best_energy))]_vars

\* the driver has reset a counter that a step without improvement had brought
\* to maxStagnant, and the next iteration has begun
C8_Witness ==
    /\ pc = "step"
    /\ iteration >= 2
    /\ args.max_stagnant >= 1
    /\ last_step.done
    /\ ~Improved
    /\ last_step.stagnation_before + 1 = args.max_stagnant
    /\ stagnation = 0
    /\ temp = args.init_temp
    /\ RLess(args.min_temp, args.init_temp) /\ RLess(args.cool_rate, R(1))

\* the parameters C9 is stated for
C9_Stated ==
    /\ RLeq(args.min_temp, args.init_temp)
    /\ RLess(R(0), args.cool_rate) /\ RLeq(args.cool_rate, R(1))

\* C9 as stated: for initTemp >= minTemp and 0 < coolRate <= 1 the temperature
\* never increases from one state to the next, except at the driver's reset.
C9_Original ==
    [][(C9_Stated /\ pc # "scheduler" /\ ~AtReset) => RLeq(temp', temp)]_vars

\* C9, amended: the same for initTemp >= minTemp, initTemp >= 0 and
\* 0 < coolRate <= 1.
C9_TemperatureNonIncreasing ==
    [][(C9_Stated /\ RLeq(R(0), args.init_temp) /\ pc # "scheduler" /\ ~AtReset)
          => RLeq(temp', temp)]_vars

\* a step has cooled the temperature below initTemp
C9_Witness ==
    /\ pc = "report"
    /\ C9_Stated /\ RLeq(R(0), args.init_temp)
    /\ RLess(temp, args.init_temp)
    /\ RLess(temp, last_step.temp_before)

\* the parameters C10 is stated for
C10_Stated ==
    /\ 0 < args.cool_rate[1] /\ args.cool_rate[1] < args.cool_rate[2]
    /\ args.min_temp[1] * args.init_temp[2] <= args.init_temp[1] * args.min_temp[2]
    /\ 0 < args.min_temp[1]

\* C10: under the recurrence alone, for 0 < coolRate < 1 and
\* initTemp >= minTemp > 0, the temperature reaches minTemp and then equals
\* minTemp for ever; with initTemp = 10, coolRate = 0.5, minTemp = 1 it is 5
\* after step 1 and 1 after step 4.
C10_CoolingConverges ==
    /\ <>[](C10_Stated => temp = args.min_temp)
    /\ [][C10_Stated /\ temp = args.min_temp => temp' = args.min_temp]_vars
    /\ []((args.init_temp = R(10) /\ args.cool_rate = <<1, 2>> /\ args.min_temp = R(1))
            => /\ (iteration = 1 => temp = R(5))
               /\ (iteration = 4 => temp = R(1)))

\* the scenario's fourth step has floored the temperature at minTemp
C10_Witness ==
    /\ pc = "cooling"
    /\ args.init_temp = R(10) /\ args.cool_rate = <<1, 2>> /\ args.min_temp = R(1)
    /\ iteration = 4
    /\ temp = R(1)

\* bit b of the byte v
BitSet(v, b) == (v \div (2 ^ b)) % 2 = 1

\* byte p of the snapshot of slot i, 0 beyond its end (zero padding) and for a
\* slot without a snapshot
PaddedByte(cov, i, p) ==
    IF i \in DOMAIN cov /\ p <= Len(cov[i]) THEN cov[i][p] ELSE 0

\* the bits, as <<position, bit>>, that are set in the snapshot of some slot of S
BitsOfSlots(cov, S) ==
    { pb \in (1..MaxSnapLen) \X (0..7) :
        \E i \in S : BitSet(PaddedByte(cov, i, pb[1]), pb[2]) }

\* the list ids with x put in after its first k members
InsertAt(ids, k, x) == SubSeq(ids, 1, k) \o <<x>> \o SubSeq(ids, k + 1, Len(ids))

\* C11: for fixed snapshots, adding a slot x to the slot set of a
\* mergedCoverage call, anywhere in the list, never gives a smaller result,
\* whatever the snapshot lengths and whether or not x has a snapshot.
C11_MergedCoverageMonotone ==
    call.fn = "get_merged_coverage" =>
        \A x \in MergeSlots \ Range(call.ids), k \in 0..Len(call.ids) :
            get_merged_coverage(call.cov, InsertAt(call.ids, k, x)) >= call.result

\* a slot with a longer snapshot is added to a call that had one slot, and the
\* merged coverage grows
C11_Witness ==
    /\ call.fn = "get_merged_coverage"
    /\ call.ids = <<1>>
    /\ DOMAIN call.cov = {1, 2}
    /\ Len(call.cov[2]) > Len(call.cov[1])
    /\ Len(call.cov[1]) > 0
    /\ get_merged_coverage(call.cov, <<1, 2>>) > call.result

\* C12: mergedCoverage is the number of bits set in some given slot's
\* zero-padded snapshot, a number that depends on the set of the slots and not
\* on the order they are given in; it is 0 for no slots;
\* coverageOf is the number of bits set in the slot's snapshot, 0 without one;
\* snapshots [0x0F,0xFF] and [0xFF] give 16, and 0x0F and 0xF0 give 8.
C12_MergedCoverageIsPopcountOfOr ==
    /\ call.fn = "get_merged_coverage" =>
         /\ call.result = Cardinality(BitsOfSlots(call.cov, Range(call.ids)))
         /\ call.ids = <<>> => call.result = 0
         /\ (Range(call.ids) = {1, 2} /\ DOMAIN call.cov = {1, 2}
               /\ call.cov[1] = <<15, 255>> /\ call.cov[2] = <<255>>)
               => call.result = 16
         /\ (Range(call.ids) = {1, 2} /\ DOMAIN call.cov = {1, 2}
               /\ call.cov[1] = <<15>> /\ call.cov[2] = <<240>>)
               => call.result = 8
    /\ call.fn = "get_instance_coverage" =>
         /\ call.result = Cardinality(BitsOfSlots(call.cov, Range(call.ids)))
         /\ Range(call.ids) \cap DOMAIN call.cov = {} => call.result = 0

\* the shorter snapshot is given first and the longer one second, and the
\* result is 16
C12_Witness ==
    /\ call.fn = "get_merged_coverage"
    /\ call.ids = <<2, 1>>
    /\ DOMAIN call.cov = {1, 2}
    /\ call.cov[1] = <<15, 255>>
    /\ call.cov[2] = <<255>>
    /\ call.result = 16

\* C13: merging A into B and B into A by OR with zero padding gives the same
\* bytes, in bit.py and in the monitor's loop body, and merging A with itself
\* leaves the number of set bits that of A.
C13_MergeCommutesAndIsIdempotent ==
    call.fn = "merge_content" =>
        /\ merge_content(call.new_content, call.base_data) = call.result
        /\ Len(call.result) = IF Len(call.base_data) > Len(call.new_content)
                              THEN Len(call.base_data) ELSE Len(call.new_content)
        /\ MergeInto(call.base_data, call.new_content)
             = MergeInto(call.new_content, call.base_data)
        /\ call.base_data = call.new_content
             => /\ count_coverage(call.result) = count_coverage(call.base_data)
                /\ count_branches(MergeInto(call.base_data, call.base_data))
                     = count_branches(call.base_data)

\* a longer byte string is merged into a shorter one whose bits it does not
\* hold
C13_Witness ==
    /\ call.fn = "merge_content"
    /\ call.base_data = <<15>>
    /\ call.new_content = <<240, 255>>
    /\ call.result = <<255, 255>>

\* the sum of the weights of the slots of S
AggregateWeight(insts, S) ==
    LET ids == SetToSeq(S)
        RECURSIVE Total(_)
        Total(k) == IF k = 0 THEN R(0) ELSE RAdd(insts[ids[k]].weight, Total(k - 1))
    IN  Total(Len(ids))

\* C14: compared with any other slot set and snapshots of the same aggregate
\* weight and no less merged coverage, the energy is no lower; compared with
\* any other slot set and weights of the same merged coverage and no less
\* aggregate weight, the energy is no higher.
C14_EnergyMonotone ==
    call.fn = "_calculate_energy" =>
        /\ \A cov2 \in EnergySnaps, set2 \in SUBSET MergeSlots :
             (/\ AggregateWeight(call.insts, set2)
                   = AggregateWeight(call.insts, call.active_set)
              /\ get_merged_coverage(cov2, SetToSeq(set2))
                   >= get_merged_coverage(call.cov, SetToSeq(call.active_set)))
                => RLeq(calculate_energy(call.insts, cov2, set2), call.result)
        /\ \A insts2 \in WeightTables, set2 \in SUBSET MergeSlots :
             (/\ get_merged_coverage(call.cov, SetToSeq(set2))
                   = get_merged_coverage(call.cov, SetToSeq(call.active_set))
              /\ RLeq(AggregateWeight(call.insts, call.active_set),
                      AggregateWeight(insts2, set2)))
                => RLeq(call.result, calculate_energy(insts2, call.cov, set2))

\* an energy for which more coverage at the same weight gives strictly less:
\* two slots of weights 1 and 2, one snapshot of four bits, and room for eight
C14_Witness ==
    /\ call.fn = "_calculate_energy"
    /\ call.active_set = {1, 2}
    /\ call.insts[1].weight = R(1) /\ call.insts[2].weight = R(2)
    /\ call.cov[1] = <<15>> /\ call.cov[2] = <<>>
    /\ call.result = <<9, 10>>
    /\ RLess(calculate_energy(call.insts, [call.cov EXCEPT ![2] = <<240>>], {1, 2}),
             call.result)

\* weightOf: 2.0 for a name with "heavy", else 1.5 for one with "medium", else 1.0
WeightOf(config) ==
    IF "heavy" \in PathStem(config) THEN R(2)
    ELSE IF "medium" \in PathStem(config) THEN <<3, 2>>
    ELSE R(1)

\* the weights of a pool's slots are among 1.0, 1.5, 2.0, and that of a slot
\* with a current configuration is weightOf(that configuration)
WeightsClassified(insts) ==
    \A i \in DOMAIN insts :
        /\ insts[i].weight \in { R(1), <<3, 2>>, R(2) }
        /\ RLeq(R(1), insts[i].weight)
        /\ insts[i].current_config # "None"
             => insts[i].weight = WeightOf(insts[i].current_config)

\* C15: in every reachable state each slot's weight is one of 1.0, 1.5, 2.0,
\* and for every slot with a current configuration it is weightOf(that
\* configuration): 2.0 for a name with "heavy", else 1.5 with "medium", else 1.0.
C15_WeightsClassified ==
    WeightsClassified(instances) /\ WeightsClassified(opt_instances)

\* the driver loop runs a slot whose configuration name holds both words
C15_Witness ==
    /\ pc = "report"
    /\ \E i \in DOMAIN instances :
         /\ instances[i].active
         /\ instances[i].current_config = "medium_heavy.xml"
         /\ instances[i].weight = R(2)
    /\ \E i \in DOMAIN opt_instances :
         /\ opt_instances[i].current_config = "TLS_Medium.xml"
         /\ opt_instances[i].weight = <<3, 2>>

\* the slots of a constructed pool: exactly the ids of the command line, each
\* bound to the two regions named after its id
SlotsAsConstructed ==
    /\ DOMAIN instances = SlotIds(args)
    /\ \A i \in DOMAIN instances :
         /\ instances[i].id = i
         /\ instances[i].shm_paths = shm_paths_of(i)

\* a step keeps the slots and the regions bound to each
SlotsKept ==
    /\ DOMAIN instances' = DOMAIN instances
    /\ \A i \in DOMAIN instances :
         /\ instances'[i].id = instances[i].id
         /\ instances'[i].shm_paths = instances[i].shm_paths

\* C16: once the pool is constructed with num_instances and start_idx it holds
\* exactly the slot ids start_idx .. start_idx + num_instances - 1, and no
\* call of switch_config, activate, deactivate, refresh or step adds or
\* removes a slot or changes the pair of regions bound to a slot.
C16_SlotsFixed ==
    /\ [](pc \in PoolPcs => SlotsAsConstructed)
    /\ [][(pc \in PoolPcs) => SlotsKept]_vars

\* a pool of two slots starting at 3, after the scheduler and a run of calls
\* that ends with a deactivate of a running slot
C16_Witness ==
    /\ pc = "scheduled"
    /\ args.start_idx = 3
    /\ DOMAIN instances = {3, 4}
    /\ iteration = MaxOps
    /\ call.fn = "deactivate"
    /\ instances[call.inst_id].current_config # "None"

\* the step is a call pool.switch_config(call'.inst_id, call'.config)
SwitchConfigCall == call' # call /\ call'.fn = "switch_config"

\* the call launched a process: Popen returned a new handle
Launched == Len(procs') = Len(procs) + 1

\* what a switch_config call leaves behind
SwitchConfigEffect ==
    LET i == call'.inst_id
    IN  /\ error' = error /\ error_at' = error_at /\ pc' = pc
        /\ Len(procs') \in { Len(procs), Len(procs) + 1 }
        /\ Launched =>
              /\ instances'[i].active
              /\ instances'[i].current_config = call'.config
              /\ instances'[i].weight = WeightOf(call'.config)
              /\ instances'[i].process = Len(procs')
              /\ procs'[Len(procs')] = [slot |-> i, pool |-> "ResourcePool", alive |-> TRUE]
        /\ ~Launched => ~instances'[i].active
        /\ \A j \in DOMAIN instances \ {i} : instances'[j] = instances[j]

\* C17: a call switch_config(slot, config) never raises. When the launch
\* succeeds the slot is active, its current configuration is config, its
\* weight is weightOf(config) and its process handle is the new process; when
\* the launch fails the slot is inactive and the caller sees no error.
C17_SwitchConfigContained == [][SwitchConfigCall => SwitchConfigEffect]_vars

\* a launch has failed on a slot that was running another configuration
C17_Witness ==
    /\ call.fn = "switch_config"
    /\ error = "none"
    /\ ~instances[call.inst_id].active
    /\ instances[call.inst_id].current_config \notin {"None", call.config}
    /\ instances[call.inst_id].process # 0

\* the step is a call pool.deactivate(call'.inst_id)
DeactivateCall == call' # call /\ call'.fn = "deactivate"

\* the 5-second wait of the call expired (the except branch of lines 310-313)
WaitExpired == faults' = faults + 1

\* what deactivate leaves alone, and the state it leaves the slot in
DeactivateFrame ==
    LET i == call'.inst_id
    IN  /\ ~instances'[i].active
        /\ instances'[i].process = 0
        /\ instances'[i].shm_paths = instances[i].shm_paths
        /\ instances'[i].current_config = instances[i].current_config
        /\ instances'[i].weight = instances[i].weight
        /\ shm' = shm
        /\ shm[instances[i].shm_paths.cov_edge].exists
              => shm'[instances'[i].shm_paths.cov_edge].exists
        /\ \A j \in DOMAIN instances \ {i} : instances'[j] = instances[j]
        /\ Len(procs') = Len(procs)
        /\ \A p \in 1..Len(procs) : p # instances[i].process => procs'[p] = procs[p]
        /\ edge_coverage' = edge_coverage /\ last_update' = last_update
        /\ error' = error

\* the slot's process is no longer running when the call returns
ProcessStopped ==
    LET h == instances[call'.inst_id].process
    IN  h # 0 => ~procs'[h].alive

\* C18 as stated: deactivate(slot) stops the slot's process and leaves the
\* slot inactive with no process handle, leaving unchanged the slot's two
\* regions, its current configuration and weight, and every other slot.
C18_Original == [][DeactivateCall => (ProcessStopped /\ DeactivateFrame)]_vars

\* C18: deactivate(slot) asks the slot's process to terminate and waits for
\* it for at most 5 seconds; the process has stopped when the call returns
\* unless that wait expired. In both cases the slot is left inactive with no
\* process handle, and its two regions, its current configuration and weight,
\* and every other slot are unchanged.
C18_DeactivateFrame ==
    [][DeactivateCall => ((~WaitExpired => ProcessStopped) /\ DeactivateFrame)]_vars

\* a running slot of a pool of two has been deactivated and its process has
\* exited, while the other slot keeps running
C18_Witness ==
    /\ call.fn = "deactivate"
    /\ ~instances[call.inst_id].active
    /\ instances[call.inst_id].process = 0
    /\ instances[call.inst_id].current_config # "None"
    /\ \E p \in 1..Len(procs) : procs[p].slot = call.inst_id
    /\ \A p \in 1..Len(procs) : procs[p].slot = call.inst_id => ~procs[p].alive
    /\ \E j \in DOMAIN instances \ {call.inst_id} :
         instances[j].active /\ procs[instances[j].process].alive

\* the step is a call monitor.refresh()
RefreshCall == call' # call /\ call'.fn = "refresh"

\* the edge region of slot i as the call finds it
EdgeRegion(i) == shm[instances[i].shm_paths.cov_edge]

\* getmtime succeeds on the region and reports a time after the recorded one
Newer(i) == EdgeRegion(i).exists /\ EdgeRegion(i).mtime > last_update[i]

\* _safe_read_shm returns no bytes: the region is missing or cannot be mapped
Unreadable(i) == ~EdgeRegion(i).exists \/ EdgeRegion(i).data = <<>>

\* the call left the snapshot and the recorded time of slot i as they were
SnapshotKept(i) ==
    /\ edge_coverage'[i] = edge_coverage[i]
    /\ last_update'[i] = last_update[i]

\* what one refresh does to slot i
RefreshEffect(i) ==
    /\ ~SnapshotKept(i) => (instances[i].active /\ Newer(i))
    /\ (instances[i].active /\ Newer(i) /\ ~Unreadable(i)) =>
          /\ edge_coverage'[i] = EdgeRegion(i).data
          /\ last_update'[i] = EdgeRegion(i).mtime
    /\ Unreadable(i) =>
          /\ SnapshotKept(i)
          /\ EdgeRegion(i).exists => EdgeRegion(i).mtime > last_update'[i]
    /\ ~instances[i].active => SnapshotKept(i)

\* C19: refresh() replaces a slot's snapshot, wholesale, only when the slot is
\* active and the modification time of its region is newer than the recorded
\* one; an unreadable region raises nothing and leaves the slot's snapshot and
\* recorded time unchanged, so the region is still due at the next refresh;
\* snapshots of inactive slots are left unchanged.
C19_RefreshSkipsUnreadable ==
    [][RefreshCall =>
         /\ \A i \in DOMAIN instances : RefreshEffect(i)
         /\ DOMAIN edge_coverage' = DOMAIN edge_coverage
         /\ error' = error
         /\ pc' = pc]_vars

\* a refresh has just met a truncated region of an active slot whose earlier
\* snapshot it keeps
C19_Witness ==
    /\ call.fn = "refresh"
    /\ call.op = iteration
    /\ error = "none"
    /\ \E i \in DOMAIN instances :
         /\ instances[i].active
         /\ EdgeRegion(i).exists
         /\ EdgeRegion(i).data = <<>>
         /\ EdgeRegion(i).mtime > last_update[i]
         /\ last_update[i] > 0
         /\ edge_coverage[i] # <<>>

\* refresh has finished for slot i: the snapshot of an active slot with a
\* readable region is the content the region has now, read at its current
\* modification time
RefreshFinished(i) ==
    (instances[i].active /\ ~Unreadable(i)) =>
        /\ last_update[i] = EdgeRegion(i).mtime
        /\ edge_coverage[i] = EdgeRegion(i).data

\* the driver enters scheduler.step() only from monitor.refresh(), which has
\* then finished for every active slot
StepFollowsRefresh ==
    (pc # "step" /\ pc' = "step") =>
        /\ pc = "refresh"
        /\ iteration' = iteration + 1
        /\ \A i \in DOMAIN instances : RefreshFinished(i)'

\* while scheduler.step() runs, no snapshot and no recorded time changes
SnapshotsHeldDuringStep ==
    pc = "step" => (edge_coverage' = edge_coverage /\ last_update' = last_update)

\* the energies step() computes are those of the snapshots refresh left
EnergyFromRefreshedSnapshots ==
    (pc = "step" /\ pc' = "report") =>
        /\ last_step'.done
        /\ last_step'.current_e =
              calculate_energy(instances', edge_coverage, last_step'.active)
        /\ last_step'.candidate_e =
              calculate_energy(instances', edge_coverage, last_step'.active)

\* C20: in every iteration of the driver with the synchronous monitor,
\* refresh() has finished for all active slots before step() computes any
\* energy, and no snapshot changes between that refresh and the end of the
\* energy computations of the step.
C20_RefreshBeforeEnergy ==
    [][StepFollowsRefresh /\ SnapshotsHeldDuringStep
         /\ EnergyFromRefreshedSnapshots]_vars

\* a step has computed its energies from the snapshot the refresh of its
\* iteration took, while the worker of the slot has written the region since
C20_Witness ==
    /\ pc = "report"
    /\ pool = "ResourcePool"
    /\ last_step.done
    /\ \E i \in last_step.active :
         /\ Len(edge_coverage[i]) = RegionLen
         /\ last_update[i] > 0
         /\ EdgeRegion(i).mtime > last_update[i]
         /\ EdgeRegion(i).data # edge_coverage[i]
    /\ last_step.candidate_e =
         calculate_energy(instances, edge_coverage, last_step.active)

\* the step of the driver is a scheduler.step() that returned
StepReturns == pc = "step" /\ pc' = "report"

\* the pool after the step holds the switch the candidate made: the switched
\* slot runs the new configuration, or is inactive when its launch failed,
\* and every other slot is as it was
CandidateApplied ==
    LET sw == last_step'.switched
    IN  IF sw = <<>>
        THEN instances' = instances /\ procs' = procs
        ELSE /\ sw[1] \in last_step'.active
             /\ sw[2] \in Range(args.config_pool)
             /\ Launched =>
                   /\ instances'[sw[1]].active
                   /\ instances'[sw[1]].current_config = sw[2]
                   /\ instances'[sw[1]].weight = WeightOf(sw[2])
                   /\ instances'[sw[1]].process = Len(procs')
             /\ ~Launched =>
                   instances'[sw[1]] = [instances[sw[1]] EXCEPT !.active = FALSE]
             /\ \A j \in DOMAIN instances \ {sw[1]} : instances'[j] = instances[j]

\* what the decision of the step governs, and what it does not
DecisionEffect ==
    /\ temp' = cool(temp, args)
    /\ ~last_step'.accepted =>
          /\ best_state' = best_state
          /\ best_energy' = best_energy
          /\ stagnation' = stagnation
    /\ last_step'.accepted =>
          \/ /\ stagnation' = 0
             /\ best_energy' = last_step'.candidate_e
             /\ best_state' = last_step'.active
          \/ /\ stagnation' = stagnation + 1
             /\ best_energy' = best_energy
             /\ best_state' = best_state

\* C21: in every step the switch_config calls of the candidate are made on
\* the pool before the decision and the decision does not undo them: after
\* the step the pool holds the candidate's assignment whether it was accepted
\* or not, and acceptance changes only best_state, best_energy and stagnation.
C21_MutationNeverUndone ==
    [][StepReturns => (last_step'.done /\ CandidateApplied /\ DecisionEffect)]_vars

\* a step has switched a slot to another configuration without improving on
\* the best energy
C21_Witness ==
    /\ pc = "report"
    /\ last_step.done
    /\ last_step.switched # <<>>
    /\ instances[last_step.switched[1]].active
    /\ instances[last_step.switched[1]].current_config = last_step.switched[2]
    /\ ~RLess(last_step.candidate_e, last_step.best_before)
    /\ best_energy = last_step.best_before
    /\ stagnation = last_step.stagnation_before + 1

\* C22: in each step the current energy of the acceptance test is the energy
\* of the active set before the mutation, with the weights the slots had
\* then, and the candidate energy is the energy after it, so that with the
\* snapshots unchanged the two differ by 0.7 times the change of weight.
C22_EnergiesBeforeAndAfter ==
    [][StepReturns =>
         /\ last_step'.current_e =
               calculate_energy(instances, edge_coverage, last_step'.active)
         /\ last_step'.candidate_e =
               calculate_energy(instances', edge_coverage, last_step'.active)
         /\ RSub(last_step'.candidate_e, last_step'.current_e) =
               RMul(<<7, 10>>,
                    RSub(AggregateWeight(instances', last_step'.active),
                         AggregateWeight(instances, last_step'.active)))]_vars

\* the slots the call switched: those whose entry in the pool it changed
SwitchedSlots == { i \in call.current_set : call.result[i] # call.insts[i] }

\* C23: an efficiency-guided step of the scheduler the driver runs, on an
\* active set of n >= 1 slots and a pool of at least two configurations,
\* calls switch_config on exactly k = max(1, floor(0.05 * n)) distinct slots,
\* which are k slots of the lowest coverage / (weight + epsilon), and gives
\* each a configuration other than its current one.
C23_SwitchesFivePercent ==
    call.fn = "_optimize_by_efficiency" =>
        /\ Cardinality(SwitchedSlots) = num_changes(Cardinality(call.current_set))
        /\ \A i \in SwitchedSlots, j \in call.current_set \ SwitchedSlots :
              EffLeq(efficiency(call.insts, call.cov, i),
                     efficiency(call.insts, call.cov, j))
        /\ \A i \in SwitchedSlots :
              call.result[i].active =>
                  call.result[i].current_config # call.insts[i].current_config

\* the step of the driver is the constructor of the scheduler, returning
SchedulerConstructed == pc = "scheduler" /\ pc' = "refresh"

\* slot i after the constructor: running a configuration of the pool in a
\* process of its own, or inactive after a launch that failed
SlotLaunchedOnce(i) ==
    \/ /\ instances'[i].active
       /\ instances'[i].current_config \in Range(args.config_pool)
       /\ instances'[i].weight = WeightOf(instances'[i].current_config)
       /\ instances'[i].process \in (Len(procs) + 1)..Len(procs')
       /\ procs'[instances'[i].process] =
            [slot |-> i, pool |-> "ResourcePool", alive |-> TRUE]
    \/ /\ ~instances'[i].active
       /\ instances'[i].current_config = "None"
       /\ instances'[i].process = 0

\* C24: constructing the scheduler calls switch_config exactly once for every
\* slot of the pool, with a configuration of the configuration pool: right
\* after it every slot is active with a current configuration of the pool, or
\* inactive because its launch failed; temp is init_temp and stagnation is 0.
C24_ConstructorLaunchesEverySlot ==
    [][SchedulerConstructed =>
         /\ \A i \in DOMAIN instances : SlotLaunchedOnce(i)
         /\ DOMAIN instances' = SlotIds(args)
         /\ Len(procs') - Len(procs) =
               Cardinality({ i \in DOMAIN instances : instances'[i].active })
         /\ faults' - faults =
               Cardinality({ i \in DOMAIN instances : ~instances'[i].active })
         /\ temp' = args.init_temp
         /\ stagnation' = 0
         /\ best_energy' = Inf
         /\ best_state' = {}]_vars

\* the scheduler of a pool of two slots has been constructed; one slot runs
\* and the launch of the other failed
C24_Witness ==
    /\ pc = "refresh"
    /\ iteration = 0
    /\ args.num_instances = 2
    /\ temp = args.init_temp
    /\ stagnation = 0
    /\ \E i, j \in DOMAIN instances :
         /\ instances[i].active /\ instances[i].current_config = "tls.xml"
         /\ ~instances[j].active /\ instances[j].current_config = "None"

\* C25: best_energy never increases over the run, the driver's resets on
\* stagnation included (they set temp and stagnation and leave best_energy
\* and best_state alone), and best_state changes only in a step in which
\* best_energy strictly decreases.
C25_BestEnergyNeverIncreases ==
    [][/\ RLeq(best_energy', best_energy)
       /\ best_state' # best_state => (pc = "step" /\ RLess(best_energy', best_energy))
       /\ AtReset => (best_energy' = best_energy /\ best_state' = best_state)]_vars

\* the driver has reset the temperature after a step that did not improve,
\* and the best energy and state of an earlier step are still recorded
C25_Witness ==
    /\ pc = "sleep"
    /\ last_step.done
    /\ ~RLess(last_step.candidate_e, last_step.best_before)
    /\ stagnation = 0
    /\ temp = args.init_temp
    /\ best_energy = last_step.best_before
    /\ best_energy # Inf
    /\ best_state # {}

\* the slots of the pool main() steps that are marked active
ActiveSlots == { i \in DOMAIN instances : instances[i].active }

\* the scheduler of line 477 has been constructed
AfterConstruction == pc \in {"refresh", "step", "report", "check", "sleep"}

\* C26: after the scheduler is constructed the set of active slots never
\* grows: a step calls switch_config only on a slot that was active at its
\* start, so a slot that a failed launch made inactive is not launched again
\* by any later step or iteration of the driver.
C26_ActiveSetNeverGrows ==
    [][AfterConstruction =>
         /\ ActiveSlots' \subseteq ActiveSlots
         /\ \A i \in DOMAIN instances \ ActiveSlots :
               /\ instances'[i] = instances[i]
               /\ \A p \in (Len(procs) + 1)..Len(procs') : procs'[p].slot # i
         /\ StepReturns /\ last_step'.switched # <<>> =>
               last_step'.switched[1] \in ActiveSlots]_vars

\* a step made the only running slot inactive by a failed launch, and the
\* driver has gone through a later step with no slot running
C26_Witness ==
    /\ pc = "report"
    /\ last_step.done
    /\ last_step.active = {}
    /\ ActiveSlots = {}
    /\ \E i \in DOMAIN instances : instances[i].current_config # "None"

====
